---- MODULE Spec2Model ----
(***************************************************************************)
(* Model of the ENR toplists crawler (controllers/crawler.js).             *)
(*                                                                         *)
(*   SpecGate      waitForCloudflareChallenge, one call, poll by poll      *)
(*   SpecDiscover  getToplistLinks as a function of the index page's DOM   *)
(*   Spec          crawlENRToplists driving crawlToplistPage               *)
(*                                                                         *)
(* A URL is the sequence of its path segments, so that includes() and      *)
(* endsWith() are computed on it.                                          *)
(***************************************************************************)
EXTENDS Integers, Sequences, FiniteSets, TLC

\* ------------------------------------------------------------------ bounds
MaxAnchors == 3     \* anchors on the index page given to getToplistLinks
MaxLinks == 2       \* anchors on the index page of a whole run
MaxPag == 2         \* qualifying anchors in a pagination table
MaxRows == 2        \* rows one page can yield
MaxHeaders == 3     \* header cells of a table given to extractTableData
MaxCells == 2       \* cells of a body row given to extractTableData

\* ------------------------------------------------------- program constants
maxAttempts == 60
DynamicContentDelay == 2000
PaginationDelay == 1500
ToplistDelay == 2000
IndexDelay == 3000

VARIABLES
  \* waitForCloudflareChallenge
  gpc,          \* "idle", "polling", "settle", "done"
  attempts,     \* the local `attempts`
  gret,         \* how the call ended: Pending, Ret(b) or Throw
  gfirst,       \* (history) the snapshot the first check saw, or NoSnap
  glast,        \* (history) the snapshot the latest poll saw, or NoSnap
  gpolls,       \* (history) polls evaluated
  gclear,       \* (history) polls that saw a body and no title/text marker
  gsettle,      \* (history) settle delays slept
  \* getToplistLinks
  dom,          \* the index page: a sequence of anchors
  discovered,   \* what getToplistLinks returned, or NotRun
  \* crawlENRToplists / crawlToplistPage
  pc,           \* position of the single thread of control
  outcome,      \* "running", "returned", "raised"
  toplistLinks, \* the local `toplistLinks`
  i,            \* loop index of crawlENRToplists (1-based)
  pagLinks,     \* the local `paginationLinks` of the current call
  j,            \* loop index of the pagination loop (1-based)
  allData,      \* the local `allData` of the current call
  result,       \* what the current crawlToplistPage call returned
  allResults,   \* the local `allResults`
  inflight,     \* URLs whose page.goto has started and not settled
  delays,       \* (history) sleeps since the latest page.goto started
  navLog,       \* (history) every page.goto of the list loop, in order
  callLog,      \* (history) URL of every crawlToplistPage call, in order
  returnLog,    \* (history) what every crawlToplistPage call returned
  pageRows,     \* (history) rows each page of the current call yielded
  resolveLog,   \* (history) per call: getPaginationLinks runs, where, result
  skipped,      \* (history) pagination pages of the current call that raised
  homeGate,     \* (history) what the gate returned on the homepage
  listingGate,  \* (history) what the gate returned on the listing page
  raisedAt,     \* (history) the step that made the run raise
  \* extractTableData: the function evaluated in the page, for one table
  dataTable,    \* the table: its header texts and the cells of its body rows
  columns,      \* the locals rank2025Index, rank2024Index, firmIndex
  tableRows,    \* the local `rows` of the table
  epc           \* "idle", "done"

gateVars == <<gpc, attempts, gret, gfirst, glast, gpolls, gclear, gsettle>>
discVars == <<dom, discovered>>
crawlVars == <<pc, outcome, toplistLinks, i, pagLinks, j, allData, result,
               allResults, inflight, delays, navLog, callLog, returnLog,
               pageRows, resolveLog, skipped, homeGate, listingGate, raisedAt>>
extVars == <<dataTable, columns, tableRows, epc>>
vars == <<gateVars, discVars, crawlVars, extVars>>

\* ------------------------------------------------ completion of a call
Pending == [kind |-> "pending", value |-> FALSE]
Throw == [kind |-> "throw", value |-> FALSE]
Ret(b) == [kind |-> "return", value |-> b]

(***************************************************************************)
(* waitForCloudflareChallenge                                              *)
(***************************************************************************)
\* What page.evaluate can meet: the evaluation raises, or it reads a
\* document with or without a body, with or without each kind of marker.
NoSnap == [raises |-> FALSE, hasBody |-> FALSE, title |-> FALSE,
           text |-> FALSE, element |-> FALSE, none |-> TRUE]
Snapshots ==
  {[raises |-> TRUE, hasBody |-> FALSE, title |-> FALSE, text |-> FALSE,
    element |-> FALSE, none |-> FALSE]}
  \cup {[raises |-> FALSE, hasBody |-> FALSE, title |-> t, text |-> FALSE,
         element |-> FALSE, none |-> FALSE] : t \in BOOLEAN}
  \cup {[raises |-> FALSE, hasBody |-> TRUE, title |-> t, text |-> x,
         element |-> e, none |-> FALSE] : t \in BOOLEAN, x \in BOOLEAN, e \in BOOLEAN}

\* the first page.evaluate callback
isChallenge(s) ==
  IF ~s.hasBody THEN FALSE ELSE s.title \/ s.text \/ s.element

\* the polling page.evaluate callback
stillOnChallengeEval(s) ==
  IF ~s.hasBody THEN TRUE ELSE s.title \/ s.text

\* the polling page.evaluate(...).catch(() => true)
stillOnChallenge(s) ==
  IF s.raises THEN TRUE ELSE stillOnChallengeEval(s)

\* the first await page.evaluate(...): no .catch on it
FirstInspect(s) == IF s.raises THEN Throw ELSE Ret(isChallenge(s))

\* catch (error) { ...; return false; }
CatchRethrow(o) == o
GateCatch(o) == IF o.kind = "throw" THEN Ret(FALSE) ELSE o

\* while (attempts < maxAttempts)
PollWhileNoCap(n) == TRUE
PollWhile(n) == n < maxAttempts

GateInit ==
  /\ gpc = "idle"
  /\ attempts = 0
  /\ gret = Pending
  /\ gfirst = NoSnap
  /\ glast = NoSnap
  /\ gpolls = 0
  /\ gclear = 0
  /\ gsettle = 0

\* lines 9-27 and 66-71: the first check
GateFirstCheck ==
  /\ gpc = "idle"
  /\ \E s \in Snapshots :
       LET o == FirstInspect(s) IN
       /\ gfirst' = s
       /\ IF o.kind = "throw"
            THEN gpc' = "done" /\ gret' = GateCatch(o)
            ELSE IF o.value
                   THEN gpc' = "polling" /\ gret' = gret
                   ELSE gpc' = "done" /\ gret' = GateCatch(Ret(TRUE))
  /\ UNCHANGED <<attempts, glast, gpolls, gclear, gsettle>>
  /\ UNCHANGED <<discVars, crawlVars, extVars>>

\* lines 35-59: one turn of the polling loop
GatePoll ==
  /\ gpc = "polling"
  /\ PollWhile(attempts)
  /\ \E s \in Snapshots :
       /\ glast' = s
       /\ gpolls' = gpolls + 1
       /\ gclear' = IF ~s.raises /\ s.hasBody /\ ~s.title /\ ~s.text
                      THEN gclear + 1 ELSE gclear
       /\ IF ~stillOnChallenge(s)
            THEN gpc' = "settle" /\ attempts' = attempts
            ELSE gpc' = "polling" /\ attempts' = attempts + 1
  /\ UNCHANGED <<gret, gfirst, gsettle>>
  /\ UNCHANGED <<discVars, crawlVars, extVars>>

\* lines 50-54: the settle delay, then return true
GateSettle ==
  /\ gpc = "settle"
  /\ gsettle' = gsettle + 1
  /\ gret' = GateCatch(Ret(TRUE))
  /\ gpc' = "done"
  /\ UNCHANGED <<attempts, gfirst, glast, gpolls, gclear>>
  /\ UNCHANGED <<discVars, crawlVars, extVars>>

\* lines 62-63: the cap is exhausted
GateTimeout ==
  /\ gpc = "polling"
  /\ ~PollWhile(attempts)
  /\ gret' = GateCatch(Ret(FALSE))
  /\ gpc' = "done"
  /\ UNCHANGED <<attempts, gfirst, glast, gpolls, gclear, gsettle>>
  /\ UNCHANGED <<discVars, crawlVars, extVars>>

GateNext == GateFirstCheck \/ GatePoll \/ GateSettle \/ GateTimeout

(***************************************************************************)
(* getToplistLinks                                                         *)
(***************************************************************************)
\* An anchor of the index page: its resolved URL and where it stands in the
\* markup.  Its text is its position in the document, so that two anchors
\* with one URL can be told apart.
Places == {"divLinkArrow", "spanLinkArrow", "aLinkDash", "divLinkDash", "plain"}
IndexUrl == <<"toplists">>
Hrefs == {<<"toplists", "A">>, <<"toplists", "B">>, IndexUrl,
          <<"rankings", "R">>, <<"about">>}
Anchors == [href : Hrefs, place : Places]

\* String.prototype.includes / endsWith on a URL
Includes(href, frag) == \E k \in 1..Len(href) : href[k] = frag
EndsWith(href, frag) == Len(href) > 0 /\ href[Len(href)] = frag

\* the `selectors` array
selectors == <<"div.linkArrow a", ".linkArrow a", "a[href*=toplists]",
               "a[href*=rankings]", "a.link-arrow", ".link-arrow a",
               "div[class*=arrow] a">>

\* whether an anchor is selected by a selector of the array
Matches(sel, a) ==
  CASE sel = "div.linkArrow a" -> a.place = "divLinkArrow"
    [] sel = ".linkArrow a" -> a.place \in {"divLinkArrow", "spanLinkArrow"}
    [] sel = "a[href*=toplists]" -> Includes(a.href, "toplists")
    [] sel = "a[href*=rankings]" -> Includes(a.href, "rankings")
    [] sel = "a.link-arrow" -> a.place = "aLinkDash"
    [] sel = ".link-arrow a" -> a.place = "divLinkDash"
    [] sel = "div[class*=arrow] a" -> a.place = "divLinkDash"
    [] OTHER -> FALSE

\* the members of a set of positions, in document order
RECURSIVE DocumentOrder(_)
DocumentOrder(S) ==
  IF S = {} THEN <<>>
  ELSE LET m == CHOOSE x \in S : \A y \in S : x <= y
       IN <<m>> \o DocumentOrder(S \ {m})

\* document.querySelectorAll(selector)
QuerySelectorAll(d, sel) ==
  DocumentOrder({k \in 1..Len(d) : Matches(sel, d[k])})

\* { href: a.href, text: a.textContent.trim() }
LinkRef(d, k) == [href |-> d[k].href, text |-> k]

\* if (a.href && a.href.includes('toplists'))
Qualifies(a) == Includes(a.href, "toplists")

\* elements.forEach(a => { if (...) linkArray.push(...) })
PushQualifying(d, elements) ==
  LET keep(k) == Qualifies(d[k]) IN SelectSeq(elements, keep)

\* for (const selector of selectors) { ...; if (linkArray.length > 0) break; }
RECURSIVE TrySelectors(_, _)
TrySelectors(d, n) ==
  IF n > Len(selectors) THEN <<>>
  ELSE LET elements == QuerySelectorAll(d, selectors[n])
           linkArray == IF Len(elements) > 0 THEN PushQualifying(d, elements) ELSE <<>>
       IN IF Len(linkArray) > 0 THEN linkArray ELSE TrySelectors(d, n + 1)

\* the fallback over document.querySelectorAll('a')
FallbackLinks(d) ==
  DocumentOrder({k \in 1..Len(d) :
     Includes(d[k].href, "toplists") /\ ~EndsWith(d[k].href, "toplists")})

\* the seenUrls / uniqueLinks pass
RECURSIVE KeepLast(_)
KeepLast(links) ==
  IF links = <<>> THEN <<>>
  ELSE LET rest == KeepLast(Tail(links)) IN
       IF \E k \in 1..Len(rest) : rest[k].href = Head(links).href
         THEN rest ELSE <<Head(links)>> \o rest
RECURSIVE UniqueFrom(_, _)
UniqueFrom(links, seenUrls) ==
  IF links = <<>> THEN <<>>
  ELSE IF Head(links).href \in seenUrls
         THEN UniqueFrom(Tail(links), seenUrls)
         ELSE <<Head(links)>> \o UniqueFrom(Tail(links), seenUrls \cup {Head(links).href})
RemoveDuplicates(links) == UniqueFrom(links, {})

\* the function evaluated in the page
getToplistLinks(d) ==
  LET tried == TrySelectors(d, 1)
      positions == IF Len(tried) = 0 THEN FallbackLinks(d) ELSE tried
  IN RemoveDuplicates([k \in 1..Len(positions) |-> LinkRef(d, positions[k])])

NotRun == <<[href |-> <<"not run">>, text |-> 0]>>
DomsUpTo(n) == UNION {[1..m -> Anchors] : m \in 0..n}

DiscoverIdle ==
  /\ dom = <<>>
  /\ discovered = NotRun

\* const links = await page.evaluate(...)
Discover ==
  /\ discovered = NotRun
  /\ discovered' = getToplistLinks(dom)
  /\ UNCHANGED dom
  /\ UNCHANGED <<gateVars, crawlVars, extVars>>

(***************************************************************************)
(* getPaginationLinks, extractTableData as crawlToplistPage uses them      *)
(***************************************************************************)
Null == <<>>
Some(x) == <<x>>

HomeUrl == <<"home">>
ListingUrl == <<"toplists">>
ListNames == <<"A", "B", "C", "D">>
PageNames == <<"p2", "p3", "p4", "p5">>
ListUrl(k) == <<"toplists", ListNames[k]>>

\* The index page of a run: n anchors of div.linkArrow, one per toplist.
IndexPages ==
  {[k \in 1..n |-> [href |-> ListUrl(k), place |-> "divLinkArrow"]] : n \in 0..MaxLinks}

\* table#paginationTable of the page at url: absent, or k anchors to the
\* further pages of the list, after an anchor that leads elsewhere or not.
NoTable == [present |-> FALSE, anchors |-> <<>>]
PaginationTable(url, k, other) ==
  [present |-> TRUE,
   anchors |-> (IF other THEN <<[href |-> <<"about">>, text |-> "about"]>> ELSE <<>>)
               \o [n \in 1..k |-> [href |-> url \o <<PageNames[n]>>, text |-> PageNames[n]]]]
PaginationTables(url) ==
  {NoTable} \cup {PaginationTable(url, k, other) : k \in 0..MaxPag, other \in BOOLEAN}

\* the function getPaginationLinks evaluates in the page
getPaginationLinks(table) ==
  IF ~table.present THEN <<>>
  ELSE LET keep(a) == Includes(a.href, "toplists") IN SelectSeq(table.anchors, keep)

\* What extractTableData meets on a page: a step of it raises, or the page
\* has no data table, or its tables hold MaxRows rows.
ExtractInputs ==
  {[raises |-> TRUE, rows |-> 0], [raises |-> FALSE, rows |-> 0],
   [raises |-> FALSE, rows |-> MaxRows]}
Row(url, k) == [page |-> url, row |-> k]

\* extractTableData: null on an error or when no table yields a row
extractTableData(url, x) ==
  IF x.raises THEN Null
  ELSE IF x.rows = 0 THEN Null
  ELSE Some([data |-> [k \in 1..x.rows |-> Row(url, k)], tablesFound |-> 1])

\* if (pageData && pageData.data) allData.push(...pageData.data)
AccumulateFront(data, pageData) ==
  IF pageData # Null THEN pageData[1].data \o data ELSE data
Accumulate(data, pageData) ==
  IF pageData # Null THEN data \o pageData[1].data ELSE data

\* paginatedPages: paginationLinks.length > 0 ? paginationLinks.length + 1 : 1
PaginatedPagesLinksOnly(links) == IF Len(links) > 0 THEN Len(links) ELSE 1
PaginatedPages(links) == IF Len(links) > 0 THEN Len(links) + 1 ELSE 1

\* if (allData.length > 0) return {...}; return null;
BuildResultAlways(listName, url, data, links) ==
  Some([listName |-> listName, url |-> url, data |-> data,
        rowCount |-> Len(data), paginatedPages |-> PaginatedPages(links)])
BuildResult(listName, url, data, links) ==
  IF Len(data) > 0
    THEN Some([listName |-> listName, url |-> url, data |-> data,
               rowCount |-> Len(data), paginatedPages |-> PaginatedPages(links)])
    ELSE Null

\* if (result) allResults.push(result)
CollectFront(results, r) == IF r # Null THEN r \o results ELSE results
Collect(results, r) == IF r # Null THEN results \o r ELSE results

\* if (!challengePassed) throw ... : on the homepage only
HomeChallengeIgnored(passed) == FALSE
HomeChallengeFatal(passed) == ~passed
ListingChallengeFatal(passed) == FALSE

\* the inner catch of the pagination loop: log, and go on with the next link
PagCatchAbort(links, n) == Len(links) + 1
PagCatchNext(links, n) == n + 1

\* (history) no getPaginationLinks call made yet for a crawlToplistPage call
NotResolved == [runs |-> 0, page |-> 0, resolved |-> FALSE, links |-> <<>>]

\* const paginationLink = paginationLinks[i]
paginationLinkReversed(links, n) == links[Len(links) + 1 - n]
paginationLink(links, n) == links[n]

(***************************************************************************)
(* crawlENRToplists and crawlToplistPage, one action per await             *)
(***************************************************************************)
CrawlInit ==
  /\ pc = "home"
  /\ outcome = "running"
  /\ toplistLinks = <<>>
  /\ i = 1
  /\ pagLinks = <<>>
  /\ j = 1
  /\ allData = <<>>
  /\ result = Null
  /\ allResults = <<>>
  /\ inflight = {}
  /\ delays = <<>>
  /\ navLog = <<>>
  /\ callLog = <<>>
  /\ returnLog = <<>>
  /\ pageRows = <<>>
  /\ resolveLog = <<>>
  /\ skipped = {}
  /\ homeGate = Pending
  /\ listingGate = Pending
  /\ raisedAt = "nowhere"

locals == <<pagLinks, j, allData, result, pageRows, skipped>>
logs == <<navLog, callLog, returnLog, resolveLog>>
gates == <<homeGate, listingGate>>

\* catch (error) { ...; await browser.close(); throw error; } of crawlENRToplists
RunRaises(where) ==
  /\ pc' = "done"
  /\ outcome' = "raised"
  /\ raisedAt' = where

\* await page.goto('https://www.enr.com/', ...): the navigation starts
HomeGoto ==
  /\ pc = "home"
  /\ inflight' = inflight \cup {HomeUrl}
  /\ delays' = <<>>
  /\ pc' = "home_nav"
  /\ UNCHANGED <<outcome, raisedAt, toplistLinks, i, allResults, locals, logs, gates>>
  /\ UNCHANGED <<gateVars, discVars, extVars>>

\* ... and settles, or times out
HomeSettle ==
  /\ pc = "home_nav"
  /\ inflight' = inflight \ {HomeUrl}
  /\ \/ pc' = "home_body" /\ UNCHANGED <<outcome, raisedAt>>
     \/ RunRaises("homepage")
  /\ UNCHANGED <<delays, toplistLinks, i, allResults, locals, logs, gates>>
  /\ UNCHANGED <<gateVars, discVars, extVars>>

\* await page.waitForSelector('body', ...); then a 2 s sleep
HomeBody ==
  /\ pc = "home_body"
  /\ \/ /\ pc' = "home_gate"
        /\ delays' = Append(delays, DynamicContentDelay)
        /\ UNCHANGED <<outcome, raisedAt>>
     \/ RunRaises("homepage") /\ UNCHANGED delays
  /\ UNCHANGED <<inflight, toplistLinks, i, allResults, locals, logs, gates>>
  /\ UNCHANGED <<gateVars, discVars, extVars>>

\* const challengePassed = await waitForCloudflareChallenge(page); throw if false.
\* Here and below a call of the gate is one step: it returns true or false and
\* never raises (SpecGate), and changes nothing the crawl reads.
HomeGate ==
  /\ pc = "home_gate"
  /\ \E passed \in BOOLEAN :
       /\ homeGate' = Ret(passed)
       /\ IF HomeChallengeFatal(passed)
            THEN RunRaises("homepage challenge") /\ UNCHANGED delays
            ELSE /\ pc' = "listing"
                 /\ delays' = Append(delays, IndexDelay)
                 /\ UNCHANGED <<outcome, raisedAt>>
  /\ UNCHANGED <<inflight, toplistLinks, i, allResults, locals, logs, listingGate>>
  /\ UNCHANGED <<gateVars, discVars, extVars>>

\* await page.goto('https://www.enr.com/toplists', ...): the navigation starts
ListingGoto ==
  /\ pc = "listing"
  /\ inflight' = inflight \cup {ListingUrl}
  /\ delays' = <<>>
  /\ pc' = "listing_nav"
  /\ UNCHANGED <<outcome, raisedAt, toplistLinks, i, allResults, locals, logs, gates>>
  /\ UNCHANGED <<gateVars, discVars, extVars>>

\* ... and settles, or times out
ListingSettle ==
  /\ pc = "listing_nav"
  /\ inflight' = inflight \ {ListingUrl}
  /\ \/ pc' = "listing_gate" /\ UNCHANGED <<outcome, raisedAt>>
     \/ RunRaises("listing page")
  /\ UNCHANGED <<delays, toplistLinks, i, allResults, locals, logs, gates>>
  /\ UNCHANGED <<gateVars, discVars, extVars>>

\* await waitForCloudflareChallenge(page); then a 3 s sleep
ListingGate ==
  /\ pc = "listing_gate"
  /\ \E passed \in BOOLEAN :
       /\ listingGate' = Ret(passed)
       /\ IF ListingChallengeFatal(passed)
            THEN RunRaises("listing challenge") /\ UNCHANGED delays
            ELSE /\ pc' = "discover"
                 /\ delays' = Append(delays, IndexDelay)
                 /\ UNCHANGED <<outcome, raisedAt>>
  /\ UNCHANGED <<inflight, toplistLinks, i, allResults, locals, logs, homeGate>>
  /\ UNCHANGED <<gateVars, discVars, extVars>>

\* const toplistLinks = await getToplistLinks(page)
GetLinks ==
  /\ pc = "discover"
  /\ \/ \E d \in IndexPages :
          /\ toplistLinks' = getToplistLinks(d)
          /\ pc' = IF Len(toplistLinks') = 0 THEN "debug" ELSE "loop"
          /\ UNCHANGED <<outcome, raisedAt>>
     \/ RunRaises("link discovery") /\ UNCHANGED toplistLinks
  /\ UNCHANGED <<inflight, delays, i, allResults, locals, logs, gates>>
  /\ UNCHANGED <<gateVars, discVars, extVars>>

\* if (toplistLinks.length === 0) { screenshot, page.content, writeFileSync }
DebugDump ==
  /\ pc = "debug"
  /\ \/ pc' = "loop" /\ UNCHANGED <<outcome, raisedAt>>
     \/ RunRaises("debug dump")
  /\ UNCHANGED <<inflight, delays, toplistLinks, i, allResults, locals, logs, gates>>
  /\ UNCHANGED <<gateVars, discVars, extVars>>

\* for (let i = 0; i < toplistLinks.length; i++): enter crawlToplistPage
CallCrawl ==
  /\ pc = "loop"
  /\ i <= Len(toplistLinks)
  /\ callLog' = Append(callLog, toplistLinks[i].href)
  /\ resolveLog' = Append(resolveLog, NotResolved)
  /\ pc' = "main"
  /\ UNCHANGED <<outcome, raisedAt, inflight, delays, toplistLinks, i, allResults,
                 locals, navLog, returnLog, gates>>
  /\ UNCHANGED <<gateVars, discVars, extVars>>

\* await page.goto(url, ...): the navigation starts
MainGoto ==
  /\ pc = "main"
  /\ inflight' = inflight \cup {toplistLinks[i].href}
  /\ navLog' = Append(navLog, [list |-> i, page |-> 0, url |-> toplistLinks[i].href])
  /\ delays' = <<>>
  /\ pc' = "main_nav"
  /\ UNCHANGED <<outcome, raisedAt, toplistLinks, i, allResults, locals,
                 callLog, returnLog, resolveLog, gates>>
  /\ UNCHANGED <<gateVars, discVars, extVars>>

\* ... and settles, or raises into the outer catch: return null
MainSettle ==
  /\ pc = "main_nav"
  /\ inflight' = inflight \ {toplistLinks[i].href}
  /\ \/ pc' = "main_gate" /\ UNCHANGED <<result, returnLog>>
     \/ /\ result' = Null
        /\ returnLog' = Append(returnLog, Null)
        /\ pc' = "collect"
  /\ UNCHANGED <<outcome, raisedAt, delays, toplistLinks, i, allResults,
                 pagLinks, j, allData, pageRows, skipped, navLog, callLog,
                 resolveLog, gates>>
  /\ UNCHANGED <<gateVars, discVars, extVars>>

\* await waitForCloudflareChallenge(page): result dropped; then a 2 s sleep
MainGate ==
  /\ pc = "main_gate"
  /\ \E passed \in BOOLEAN : pc' = "resolve"
  /\ delays' = Append(delays, DynamicContentDelay)
  /\ UNCHANGED <<outcome, raisedAt, inflight, toplistLinks, i, allResults, locals,
                 logs, gates>>
  /\ UNCHANGED <<gateVars, discVars, extVars>>

\* const paginationLinks = await getPaginationLinks(page)
Resolve ==
  /\ pc = "resolve"
  /\ \/ \E table \in PaginationTables(toplistLinks[i].href) :
          /\ pagLinks' = getPaginationLinks(table)
          /\ resolveLog' = [resolveLog EXCEPT ![i] =
                 [runs |-> @.runs + 1, page |-> navLog[Len(navLog)].page,
                  resolved |-> TRUE, links |-> getPaginationLinks(table)]]
          /\ pc' = "main_extract"
          /\ UNCHANGED <<result, returnLog>>
     \/ /\ result' = Null
        /\ returnLog' = Append(returnLog, Null)
        /\ resolveLog' = [resolveLog EXCEPT ![i] =
               [runs |-> @.runs + 1, page |-> navLog[Len(navLog)].page,
                resolved |-> FALSE, links |-> <<>>]]
        /\ pc' = "collect"
        /\ UNCHANGED pagLinks
  /\ UNCHANGED <<outcome, raisedAt, inflight, delays, toplistLinks, i, allResults,
                 j, allData, pageRows, skipped, navLog, callLog, gates>>
  /\ UNCHANGED <<gateVars, discVars, extVars>>

\* const mainPageData = await extractTableData(page, url); push its rows
MainExtract ==
  /\ pc = "main_extract"
  /\ \E x \in ExtractInputs :
       LET mainPageData == extractTableData(toplistLinks[i].href, x) IN
       /\ allData' = Accumulate(allData, mainPageData)
       /\ pageRows' = Append(pageRows,
                             IF mainPageData = Null THEN <<>> ELSE mainPageData[1].data)
  /\ j' = 1
  /\ pc' = "pag"
  /\ UNCHANGED <<outcome, raisedAt, inflight, delays, toplistLinks, i, allResults,
                 pagLinks, result, skipped, logs, gates>>
  /\ UNCHANGED <<gateVars, discVars, extVars>>

\* for (...) { await page.goto(paginationLink.href, ...): the navigation starts
PagGoto ==
  /\ pc = "pag"
  /\ j <= Len(pagLinks)
  /\ inflight' = inflight \cup {paginationLink(pagLinks, j).href}
  /\ navLog' = Append(navLog, [list |-> i, page |-> j,
                               url |-> paginationLink(pagLinks, j).href])
  /\ delays' = <<>>
  /\ pc' = "pag_nav"
  /\ UNCHANGED <<outcome, raisedAt, toplistLinks, i, allResults, locals,
                 callLog, returnLog, resolveLog, gates>>
  /\ UNCHANGED <<gateVars, discVars, extVars>>

\* ... and settles, or raises into the inner catch
PagSettle ==
  /\ pc = "pag_nav"
  /\ inflight' = inflight \ {paginationLink(pagLinks, j).href}
  /\ \/ pc' = "pag_gate" /\ UNCHANGED <<j, pageRows, skipped>>
     \/ /\ skipped' = skipped \cup {[page |-> j, why |-> "navigation"]}
        /\ pageRows' = Append(pageRows, <<>>)
        /\ j' = PagCatchNext(pagLinks, j)
        /\ pc' = "pag"
  /\ UNCHANGED <<outcome, raisedAt, delays, toplistLinks, i, allResults,
                 pagLinks, allData, result, logs, gates>>
  /\ UNCHANGED <<gateVars, discVars, extVars>>

\* await waitForCloudflareChallenge(page): result dropped; then a 2 s sleep
PagGate ==
  /\ pc = "pag_gate"
  /\ \E passed \in BOOLEAN : pc' = "pag_extract"
  /\ delays' = Append(delays, DynamicContentDelay)
  /\ UNCHANGED <<outcome, raisedAt, inflight, toplistLinks, i, allResults, locals,
                 logs, gates>>
  /\ UNCHANGED <<gateVars, discVars, extVars>>

\* const pageData = await extractTableData(...); push its rows; a 1.5 s sleep
PagExtract ==
  /\ pc = "pag_extract"
  /\ \E x \in ExtractInputs :
       LET pageData == extractTableData(paginationLink(pagLinks, j).href, x) IN
       /\ allData' = Accumulate(allData, pageData)
       /\ pageRows' = Append(pageRows, IF pageData = Null THEN <<>> ELSE pageData[1].data)
       /\ skipped' = IF x.raises
                       THEN skipped \cup {[page |-> j, why |-> "extraction"]}
                       ELSE skipped
  /\ delays' = Append(delays, PaginationDelay)
  /\ j' = j + 1
  /\ pc' = "pag"
  /\ UNCHANGED <<outcome, raisedAt, inflight, toplistLinks, i, allResults,
                 pagLinks, result, logs, gates>>
  /\ UNCHANGED <<gateVars, discVars, extVars>>

\* after the loop: return the result, or null when no row was collected
Finish ==
  /\ pc = "pag"
  /\ j > Len(pagLinks)
  /\ result' = BuildResult(toplistLinks[i].text, toplistLinks[i].href, allData, pagLinks)
  /\ returnLog' = Append(returnLog, result')
  /\ pc' = "collect"
  /\ UNCHANGED <<outcome, raisedAt, inflight, delays, toplistLinks, i, allResults,
                 pagLinks, j, allData, pageRows, skipped, navLog, callLog,
                 resolveLog, gates>>
  /\ UNCHANGED <<gateVars, discVars, extVars>>

\* if (result) allResults.push(result); a 2 s sleep; i++
CollectResult ==
  /\ pc = "collect"
  /\ allResults' = Collect(allResults, result)
  /\ delays' = Append(delays, ToplistDelay)
  /\ i' = i + 1
  /\ pagLinks' = <<>>
  /\ j' = 1
  /\ allData' = <<>>
  /\ result' = Null
  /\ pageRows' = <<>>
  /\ skipped' = {}
  /\ pc' = "loop"
  /\ UNCHANGED <<outcome, raisedAt, inflight, toplistLinks, logs, gates>>
  /\ UNCHANGED <<gateVars, discVars, extVars>>

\* after the loop: write the files and cookies, close, return allResults
SaveResults ==
  /\ pc = "loop"
  /\ i > Len(toplistLinks)
  /\ \/ pc' = "done" /\ outcome' = "returned" /\ UNCHANGED raisedAt
     \/ RunRaises("saving results")
  /\ UNCHANGED <<inflight, delays, toplistLinks, i, allResults, locals, logs, gates>>
  /\ UNCHANGED <<gateVars, discVars, extVars>>

CrawlNext ==
  \/ HomeGoto \/ HomeSettle \/ HomeBody \/ HomeGate
  \/ ListingGoto \/ ListingSettle \/ ListingGate
  \/ GetLinks \/ DebugDump \/ CallCrawl
  \/ MainGoto \/ MainSettle \/ MainGate \/ Resolve \/ MainExtract
  \/ PagGoto \/ PagSettle \/ PagGate \/ PagExtract \/ Finish
  \/ CollectResult \/ SaveResults

(***************************************************************************)
(* extractTableData: the columns of a table and the rows read from it      *)
(*                                                                         *)
(* A text is the sequence of its characters, so that toUpperCase, replace, *)
(* includes, trim, split and join are computed on it.                      *)
(***************************************************************************)
\* String.prototype.toUpperCase, on the letters the texts below use
UpperCase(c) ==
  CASE c = "a" -> "A" [] c = "n" -> "N" [] c = "k" -> "K" [] c = "i" -> "I"
    [] c = "r" -> "R" [] c = "m" -> "M" [] c = "s" -> "S"
    [] OTHER -> c
toUpperCase(str) == [k \in 1..Len(str) |-> UpperCase(str[k])]

\* .replace(/\s+/g, '')
RemoveWhitespace(str) == LET ink(c) == c # " " IN SelectSeq(str, ink)

\* String.prototype.includes
StrIncludes(str, sub) ==
  \E k \in 0..(Len(str) - Len(sub)) : SubSeq(str, k + 1, k + Len(sub)) = sub

\* String.prototype.trim
RECURSIVE TrimStart(_)
TrimStart(str) ==
  IF str # <<>> /\ Head(str) = " " THEN TrimStart(Tail(str)) ELSE str
RECURSIVE TrimEnd(_)
TrimEnd(str) ==
  IF str # <<>> /\ str[Len(str)] = " "
    THEN TrimEnd(SubSeq(str, 1, Len(str) - 1)) ELSE str
Trim(str) == TrimEnd(TrimStart(str))

\* String.prototype.split(','): the parts, one more than there are commas
RECURSIVE SplitFrom(_, _)
SplitFrom(str, part) ==
  IF str = <<>> THEN <<part>>
  ELSE IF Head(str) = "," THEN <<part>> \o SplitFrom(Tail(str), <<>>)
  ELSE SplitFrom(Tail(str), Append(part, Head(str)))
Split(str) == SplitFrom(str, <<>>)

\* Array.prototype.join(', ')
RECURSIVE Join(_)
Join(parts) ==
  IF parts = <<>> THEN <<>>
  ELSE IF Len(parts) = 1 THEN parts[1]
  ELSE parts[1] \o <<",", " ">> \o Join(Tail(parts))

\* const normalized = h.toUpperCase().replace(/\s+/g, '')
Normalized(h) == RemoveWhitespace(toUpperCase(h))

RANK == <<"R", "A", "N", "K">>
Y2025 == <<"2", "0", "2", "5">>
Y2024 == <<"2", "0", "2", "4">>
Y2023 == <<"2", "0", "2", "3">>
FIRM == <<"F", "I", "R", "M">>
FIRMS == <<"F", "I", "R", "M", "S">>

\* if (rank2024Index === -1) rank2024Index = idx
TakeLatest(current, idx) == idx
TakeFirst(current, idx) == IF current = -1 THEN idx ELSE current

\* the body of headers.forEach((h, idx) => { ... })
HeaderStep(cols, h, idx) ==
  LET normalized == Normalized(h)
      ranks ==
        IF StrIncludes(normalized, Y2025) /\ StrIncludes(normalized, RANK)
          THEN [cols EXCEPT !.rank2025Index = idx]
        ELSE IF (StrIncludes(normalized, Y2024) \/ StrIncludes(normalized, Y2023))
                /\ StrIncludes(normalized, RANK)
          THEN [cols EXCEPT !.rank2024Index = TakeFirst(cols.rank2024Index, idx)]
        ELSE cols
  IN IF normalized = FIRM \/ normalized = FIRMS
       THEN [ranks EXCEPT !.firmIndex = idx]
       ELSE ranks

\* let rank2025Index = -1; let rank2024Index = -1; let firmIndex = -1
NoColumns == [rank2025Index |-> -1, rank2024Index |-> -1, firmIndex |-> -1]

\* headers.forEach(...): idx counts from 0
RECURSIVE ResolveFrom(_, _, _)
ResolveFrom(headers, idx, cols) ==
  IF idx >= Len(headers) THEN cols
  ELSE ResolveFrom(headers, idx + 1, HeaderStep(cols, headers[idx + 1], idx))
ResolveColumns(headers) == ResolveFrom(headers, 0, NoColumns)

\* cells[idx]: undefined past the end
HasCell(cells, idx) == idx >= 0 /\ idx < Len(cells)
CellAt(cells, idx) == cells[idx + 1]

\* companyName and location out of the FIRM cell
Company(firmText) ==
  IF StrIncludes(firmText, <<",">>)
    THEN LET parts == [k \in 1..Len(Split(firmText)) |-> Trim(Split(firmText)[k])]
         IN parts[1]
    ELSE firmText
Location(firmText) ==
  IF StrIncludes(firmText, <<",">>)
    THEN LET parts == [k \in 1..Len(Split(firmText)) |-> Trim(Split(firmText)[k])]
         IN IF Len(parts) > 1 THEN Join(Tail(parts)) ELSE <<>>
    ELSE <<>>

\* if (rank2025Index !== -1 && cells[rank2025Index]) rowData['RANK 2025'] = ...
RankFieldAlways(key, cells, idx) ==
  key :> (IF HasCell(cells, idx) THEN Trim(CellAt(cells, idx)) ELSE <<>>)
RankField(key, cells, idx) ==
  IF idx # -1 /\ HasCell(cells, idx)
    THEN key :> Trim(CellAt(cells, idx))
    ELSE <<>>

\* the body of dataRows.forEach(tr => { ... }): the rows it pushes
RowOf(cols, cells) ==
  IF Len(cells) = 0 THEN <<>>
  ELSE IF ~HasCell(cells, cols.firmIndex) THEN <<>>
  ELSE LET firmText == Trim(CellAt(cells, cols.firmIndex))
           rowData == ("Company Name" :> Company(firmText))
                        @@ ("Location" :> Location(firmText))
                        @@ RankField("RANK 2025", cells, cols.rank2025Index)
                        @@ RankField("RANK 2024", cells, cols.rank2024Index)
       IN <<rowData>>

RECURSIVE RowsOf(_, _)
RowsOf(cols, body) ==
  IF body = <<>> THEN <<>> ELSE RowOf(cols, Head(body)) \o RowsOf(cols, Tail(body))

\* the body of tables.forEach((table, tableIndex) => { ... }): its `rows`
TableRows(t) ==
  IF Len(t.headers) = 0 THEN <<>>
  ELSE IF ResolveColumns(t.headers).firmIndex = -1 THEN <<>>
  ELSE RowsOf(ResolveColumns(t.headers), t.body)

\* header texts and cell texts a page can carry
HeaderTexts ==
  {<<"R", "A", "N", "K", " ", "2", "0", "2", "5">>,
   <<"R", "a", "n", "k", " ", "2", "0", "2", "4">>,
   <<"R", "A", "N", "K", "2", "0", "2", "3">>,
   <<"R", "A", "N", "K", " ", "2", "0", "2", "5", " ", "2", "0", "2", "4">>,
   <<"F", "i", "r", "m", "s">>,
   <<"R", "E", "V", " ", "2", "0", "2", "4">>}
CellTexts ==
  {<<"A", ",", " ", "B", ",", "C">>,
   <<" ", "A", " ", ",", "B">>,
   <<"A", ",">>,
   <<"7">>}
HeaderRows == UNION {[1..n -> HeaderTexts] : n \in 0..MaxHeaders}
CellRows == UNION {[1..n -> CellTexts] : n \in 0..MaxCells}
Tables == [headers : HeaderRows, body : {<<>>} \cup {<<cells>> : cells \in CellRows}]

NoTableYet == [headers |-> <<>>, body |-> <<>>]
ExtractIdle ==
  /\ dataTable = NoTableYet
  /\ columns = NoColumns
  /\ tableRows = <<>>
  /\ epc = "off"

\* one table goes through the forEach of the evaluated function
ExtractTable ==
  /\ epc = "idle"
  /\ columns' = IF Len(dataTable.headers) = 0 THEN NoColumns
                ELSE ResolveColumns(dataTable.headers)
  /\ tableRows' = TableRows(dataTable)
  /\ epc' = "done"
  /\ UNCHANGED dataTable
  /\ UNCHANGED <<gateVars, discVars, crawlVars>>

(***************************************************************************)
(* Specifications                                                          *)
(***************************************************************************)
GateIdle ==
  /\ gpc = "off"
  /\ attempts = 0
  /\ gret = Pending
  /\ gfirst = NoSnap
  /\ glast = NoSnap
  /\ gpolls = 0
  /\ gclear = 0
  /\ gsettle = 0

CrawlIdle ==
  /\ pc = "off"
  /\ outcome = "running"
  /\ toplistLinks = <<>>
  /\ i = 1
  /\ pagLinks = <<>>
  /\ j = 1
  /\ allData = <<>>
  /\ result = Null
  /\ allResults = <<>>
  /\ inflight = {}
  /\ delays = <<>>
  /\ navLog = <<>>
  /\ callLog = <<>>
  /\ returnLog = <<>>
  /\ pageRows = <<>>
  /\ resolveLog = <<>>
  /\ skipped = {}
  /\ homeGate = Pending
  /\ listingGate = Pending
  /\ raisedAt = "nowhere"

Init == CrawlInit /\ GateIdle /\ DiscoverIdle /\ ExtractIdle
Next == CrawlNext
Spec == Init /\ [][Next]_vars

InitGate == GateInit /\ CrawlIdle /\ DiscoverIdle /\ ExtractIdle
NextGate == GateNext
SpecGate == InitGate /\ [][NextGate]_vars

InitDiscover ==
  /\ dom \in DomsUpTo(MaxAnchors)
  /\ discovered = NotRun
  /\ GateIdle
  /\ CrawlIdle
  /\ ExtractIdle
NextDiscover == Discover
SpecDiscover == InitDiscover /\ [][NextDiscover]_vars

InitExtract ==
  /\ dataTable \in Tables
  /\ columns = NoColumns
  /\ tableRows = <<>>
  /\ epc = "idle"
  /\ GateIdle
  /\ CrawlIdle
  /\ DiscoverIdle
NextExtract == ExtractTable
SpecExtract == InitExtract /\ [][NextExtract]_vars

(***************************************************************************)
(* Properties of waitForCloudflareChallenge (SpecGate)                     *)
(***************************************************************************)
\* a snapshot that can be inspected and shows no title or body-text marker
ClearSnap(s) == ~s.raises /\ s.hasBody /\ ~s.title /\ ~s.text
\* a snapshot in which the first check finds a marker
MarkerSnap(s) == ~s.raises /\ s.hasBody /\ (s.title \/ s.text \/ s.element)

\* C6 as stated: ChallengeGate.clear never raises, and an inspection that
\* raises in the first check makes it return true ("assume clear"), while
\* an inspection that raises during a poll counts as "still challenged".
C6_FirstErrorAssumesClear ==
  /\ gret.kind # "throw"
  /\ (gpc = "done" /\ gfirst.raises => gret = Ret(TRUE))
  /\ (gpolls > 0 /\ glast.raises => gpc \in {"polling", "done"} /\ gret # Ret(TRUE))

\* C6 amended: ChallengeGate.clear never raises; an inspection that raises in
\* the first check makes it return false without any poll (only a page that
\* has no body is read there as "no challenge" and returns true), while an
\* inspection that raises during a poll, or meets no body, counts as "still
\* challenged": the attempt is counted and the gate neither settles nor
\* returns true on it.
C6_FirstErrorReturnsFalse ==
  /\ gret.kind # "throw"
  /\ (gpc = "done" /\ gfirst.raises => gret = Ret(FALSE) /\ gpolls = 0)
  /\ (gpc = "done" /\ ~gfirst.raises /\ ~gfirst.hasBody => gret = Ret(TRUE) /\ gpolls = 0)
  /\ (gpolls > 0 /\ (glast.raises \/ ~glast.hasBody) =>
        /\ gpc \in {"polling", "done"}
        /\ attempts = gpolls
        /\ gret # Ret(TRUE))

\* C6 witness: the first inspection raised and the call returned false
C6_Witness == gpc = "done" /\ gfirst.raises /\ gret = Ret(FALSE)

\* C7: after a first check that finds a marker the gate polls at most 60
\* times; it returns true at the first poll that can be inspected and shows
\* no title/body-text marker (challenge elements are not looked at again),
\* after exactly one settle delay, and returns false exactly when 60 polls
\* have all shown a marker, no body, or raised; a first check that finds no
\* marker returns true with no poll and no settle delay.
C7_BoundedPolling ==
  /\ gpolls <= maxAttempts
  /\ attempts <= maxAttempts
  /\ (gpc # "done" /\ gpc # "off" => ENABLED NextGate)
  /\ (gpc = "polling" => MarkerSnap(gfirst) /\ gclear = 0 /\ attempts = gpolls)
  /\ (gpc = "settle" => gclear = 1 /\ ClearSnap(glast) /\ gsettle = 0)
  /\ (gpc = "done" /\ MarkerSnap(gfirst) =>
        /\ gret \in {Ret(TRUE), Ret(FALSE)}
        /\ (gret = Ret(TRUE) =>
              gclear = 1 /\ ClearSnap(glast) /\ gsettle = 1 /\ gpolls = attempts + 1)
        /\ (gret = Ret(FALSE) <=> gpolls = maxAttempts /\ gclear = 0)
        /\ (gret = Ret(FALSE) => gsettle = 0))
  /\ (gpc = "done" /\ ~gfirst.raises /\ ~MarkerSnap(gfirst) =>
        gret = Ret(TRUE) /\ gpolls = 0 /\ gsettle = 0)

\* C7 witness: a challenge seen only through a challenge element is cleared
\* by the first poll although the element is still there
C7_Witness ==
  /\ gpc = "done"
  /\ gfirst.element /\ ~gfirst.title /\ ~gfirst.text /\ gfirst.hasBody
  /\ glast = gfirst
  /\ gpolls = 1
  /\ gret = Ret(TRUE)

(***************************************************************************)
(* Properties of getToplistLinks (SpecDiscover)                            *)
(***************************************************************************)
\* positions of the anchors of dom that strategy n takes
Taken(n) == {k \in 1..Len(dom) : Matches(selectors[n], dom[k]) /\ Includes(dom[k].href, "toplists")}
\* positions the site-wide fallback takes
TakenByFallback ==
  {k \in 1..Len(dom) : Includes(dom[k].href, "toplists") /\ dom[k].href # IndexUrl}
\* positions the call has to draw from
Source ==
  IF \E n \in 1..Len(selectors) : Taken(n) # {}
    THEN Taken(CHOOSE n \in 1..Len(selectors) :
                 Taken(n) # {} /\ \A m \in 1..(n - 1) : Taken(m) = {})
    ELSE TakenByFallback

\* C9: getToplistLinks returns no two entries with one href; what it returns
\* are, in document order, the first occurrences of each href among the
\* anchors of the first strategy with a qualifying anchor, or among the
\* anchors of the site-wide fallback when no strategy has one.
C9_DiscoverUnique ==
  discovered # NotRun =>
    /\ \A a, b \in 1..Len(discovered) : a # b => discovered[a].href # discovered[b].href
    /\ \A a, b \in 1..Len(discovered) : a < b => discovered[a].text < discovered[b].text
    /\ {discovered[a].text : a \in 1..Len(discovered)} =
         {k \in Source : \A m \in Source : m < k => dom[m].href # dom[k].href}
    /\ \A a \in 1..Len(discovered) : discovered[a].href = dom[discovered[a].text].href

\* C9 witness: the first strategy with elements has none that qualifies, a
\* later one wins, and it meets the same href twice
C9_Witness ==
  /\ discovered # NotRun
  /\ Len(dom) = 3
  /\ dom[1] = [href |-> <<"about">>, place |-> "divLinkArrow"]
  /\ dom[2].href = dom[3].href
  /\ dom[2].place # dom[3].place
  /\ Len(discovered) = 1
  /\ discovered[1].text = 2

(***************************************************************************)
(* Properties of crawlToplistPage and crawlENRToplists (Spec)              *)
(***************************************************************************)
RECURSIVE Flatten(_)
Flatten(ss) == IF ss = <<>> THEN <<>> ELSE Head(ss) \o Flatten(Tail(ss))
RECURSIVE SumLen(_)
SumLen(ss) == IF ss = <<>> THEN 0 ELSE Len(Head(ss)) + SumLen(Tail(ss))

\* the page.goto calls made for the c-th crawlToplistPage call
Navigations(c) == {n \in 1..Len(navLog) : navLog[n].list = c}
\* the current call is about to hand its result to crawlENRToplists
Returning == pc = "collect"

\* C1: every result a toplist crawl returns has paginatedPages equal to 1 plus
\* the number of links getPaginationLinks returned on the main page, whatever
\* happened on the pagination pages; it is 1 when no link was returned.
C1_PageCount ==
  \A c \in 1..Len(returnLog) :
    returnLog[c] # Null =>
      /\ resolveLog[c].runs = 1
      /\ resolveLog[c].resolved
      /\ returnLog[c][1].paginatedPages = 1 + Len(resolveLog[c].links)

\* C1 witness: a result of 3 pages whose second page raised on navigation and
\* whose third page raised in extraction
C1_Witness ==
  /\ Returning
  /\ result # Null
  /\ result[1].paginatedPages = 3
  /\ skipped = {[page |-> 1, why |-> "navigation"], [page |-> 2, why |-> "extraction"]}

\* C2: the rows of a returned result are the rows of the main page followed by
\* the rows of each pagination page in resolver order, a page that raised or
\* yielded nothing giving none; rowCount is the length of the rows and the sum
\* of the per-page row counts.
C2_RowsConcatenated ==
  /\ allData = Flatten(pageRows)
  /\ (Returning /\ result # Null =>
        /\ result[1].data = Flatten(pageRows)
        /\ result[1].rowCount = Len(result[1].data)
        /\ result[1].rowCount = SumLen(pageRows)
        /\ Len(pageRows) = 1 + Len(pagLinks)
        /\ \A k \in 1..Len(pageRows) : \A r \in 1..Len(pageRows[k]) :
             /\ pageRows[k][r].row = r
             /\ pageRows[k][r].page =
                  IF k = 1 THEN toplistLinks[i].href ELSE pagLinks[k - 1].href)

\* C2 witness: rows of the main page and of the third page around a second
\* page that raised
C2_Witness ==
  /\ Returning
  /\ result # Null
  /\ Len(pageRows) = 3
  /\ Len(pageRows[1]) = MaxRows
  /\ pageRows[2] = <<>>
  /\ Len(pageRows[3]) = MaxRows
  /\ result[1].rowCount = 2 * MaxRows

\* a step in which a pagination page raises leaves the rows as they are and
\* moves on to the next link, without returning or raising
C3_SkipStep ==
  skipped' \ skipped # {} =>
    /\ allData' = allData
    /\ j' = j + 1
    /\ pc' = "pag"
    /\ result' = result
    /\ returnLog' = returnLog
    /\ outcome' = "running"
\* a call in which a pagination page raised has navigated every link, took no
\* row from the pages that raised, and returns a result if it holds a row
C3_AllAttempted ==
  Returning /\ skipped # {} =>
    /\ j = Len(pagLinks) + 1
    /\ \A k \in 1..Len(pagLinks) : \E n \in Navigations(i) :
         navLog[n].page = k /\ navLog[n].url = pagLinks[k].href
    /\ \A k \in 1..Len(pagLinks) :
         (\A e \in skipped : e.page # k) \/ pageRows[k + 1] = <<>>
    /\ (allData # <<>> => result # Null)
    /\ outcome = "running"

\* C3: when navigation or extraction raises on a pagination page, the page is
\* skipped: the rows collected so far are kept as they are, the loop goes on
\* with the next link and the call neither returns nor raises there; at the end
\* every pagination link has been navigated, and rows collected make the call
\* return a result.
C3_PageErrorSkipped == [][C3_SkipStep]_vars /\ []C3_AllAttempted

\* C3 witness: the first pagination page raised on navigation, the second was
\* still extracted, and the rows of the main page are in the result
C3_Witness ==
  /\ Returning
  /\ result # Null
  /\ skipped = {[page |-> 1, why |-> "navigation"]}
  /\ Len(pageRows) = 3
  /\ pageRows[1] # <<>>
  /\ pageRows[3] # <<>>
  /\ result[1].data = pageRows[1] \o pageRows[3]

\* C4: after link discovery crawlToplistPage is called once per discovered
\* link, in discovery order, whatever the earlier calls returned; the array
\* returned is the non-null results in that order; the run raises only before
\* the first call or after the last.
C4_EveryListCrawled ==
  /\ Len(callLog) <= Len(toplistLinks)
  /\ \A c \in 1..Len(callLog) : callLog[c] = toplistLinks[c].href
  /\ Len(returnLog) <= Len(callLog)
  /\ allResults = Flatten(SubSeq(returnLog, 1, i - 1))
  /\ (outcome = "returned" =>
        /\ Len(callLog) = Len(toplistLinks)
        /\ Len(returnLog) = Len(toplistLinks)
        /\ allResults = Flatten(returnLog))
  /\ (outcome = "raised" =>
        \/ callLog = <<>>
        \/ Len(callLog) = Len(toplistLinks) /\ Len(returnLog) = Len(toplistLinks))

\* C4 witness: the first list's main page raised, the second list returned
\* rows, and the run returned the one result
C4_Witness ==
  /\ outcome = "returned"
  /\ Len(returnLog) = 2
  /\ returnLog[1] = Null
  /\ resolveLog[1].runs = 0
  /\ returnLog[2] # Null
  /\ allResults = returnLog[2]

\* the steps of the index phase that make the run raise
IndexFailures == {"homepage", "homepage challenge", "listing page"}

\* C5 as stated: the run raises, with no link discovery, no toplist crawl and
\* no result array, when the homepage or the listing page fails to load or
\* the gate returns false on the homepage or on the listing page.
C5_IndexChallengeFatal ==
  (homeGate = Ret(FALSE) \/ listingGate = Ret(FALSE)
     \/ raisedAt \in {"homepage", "listing page"}) =>
    /\ outcome = "raised"
    /\ toplistLinks = <<>>
    /\ callLog = <<>>
    /\ navLog = <<>>

\* C5 amended: the run raises, with no link discovery, no toplist crawl and no
\* result array, when the homepage or the listing page fails to load or the
\* gate returns false on the homepage; a gate that returns false on the
\* listing page is ignored and link discovery follows.  No failure on a page
\* of a toplist is fatal: besides the index phase only the steps after the
\* last list can raise.
C5_HomeChallengeFatal ==
  /\ (homeGate = Ret(FALSE) \/ raisedAt \in {"homepage", "listing page"} =>
        /\ outcome = "raised"
        /\ raisedAt \in IndexFailures
        /\ toplistLinks = <<>>
        /\ callLog = <<>>
        /\ navLog = <<>>
        /\ allResults = <<>>)
  /\ (listingGate # Pending =>
        /\ pc \notin {"home", "home_nav", "home_body", "home_gate", "listing",
                      "listing_nav", "listing_gate"}
        /\ raisedAt \notin IndexFailures \cup {"listing challenge"})
  /\ (outcome = "raised" /\ raisedAt \notin IndexFailures =>
        \/ callLog = <<>>
        \/ Len(returnLog) = Len(toplistLinks))

\* C5 witness: the gate returned false on the homepage and the run raised
\* before the listing page was loaded
C5_Witness ==
  /\ homeGate = Ret(FALSE)
  /\ outcome = "raised"
  /\ listingGate = Pending
  /\ callLog = <<>>

\* C8: a toplist crawl returns null exactly when no row was collected over the
\* main page and the pagination pages, which includes a main-page navigation
\* or a pagination resolution that raised; every result returned, and so every
\* result of the run, has at least one row.
C8_NullIffNoRows ==
  /\ (Returning => (result = Null <=> SumLen(pageRows) = 0))
  /\ (Returning /\ ~resolveLog[i].resolved => result = Null /\ pageRows = <<>>)
  /\ \A c \in 1..Len(returnLog) :
       returnLog[c] # Null =>
         returnLog[c][1].rowCount >= 1 /\ Len(returnLog[c][1].data) >= 1
  /\ \A c \in 1..Len(allResults) : allResults[c].rowCount >= 1

\* C8 witness: three pages were visited, none yielded a row, null is returned
C8_Witness ==
  /\ Returning
  /\ result = Null
  /\ Len(pageRows) = 3
  /\ skipped = {}
  /\ SumLen(pageRows) = 0

Rank2024Pattern(h) ==
  /\ StrIncludes(Normalized(h), RANK)
  /\ StrIncludes(Normalized(h), Y2024) \/ StrIncludes(Normalized(h), Y2023)
\* the same, and the header is not taken as the rank-2025 column
Rank2024Only(h) == Rank2024Pattern(h) /\ ~StrIncludes(Normalized(h), Y2025)
Lowest(S) == CHOOSE k \in S : \A l \in S : k <= l
Resolved == epc = "done" /\ dataTable.headers # <<>>

\* C11 as stated: the rank-2024 column is the lowest-index header that
\* contains "RANK" and "2024" or "2023", and it is unresolved only when no
\* header does.  A header that also contains "2025" refutes it.
C11_FirstPatternHeader ==
  Resolved =>
    LET M == {k \in 1..Len(dataTable.headers) : Rank2024Pattern(dataTable.headers[k])}
    IN columns.rank2024Index = IF M = {} THEN -1 ELSE Lowest(M) - 1

\* C11: the rank-2024 column is the lowest-index header that contains "RANK"
\* and "2024" or "2023" and does not contain "2025"; later such headers never
\* replace it, and it is unresolved only when no header is of that kind.
C11_FirstRank2024Header ==
  Resolved =>
    LET M == {k \in 1..Len(dataTable.headers) : Rank2024Only(dataTable.headers[k])}
    IN columns.rank2024Index = IF M = {} THEN -1 ELSE Lowest(M) - 1

\* resolved: a header with both years first, then two rank-2024 headers, the
\* earlier of which is kept
C11_Witness ==
  /\ Resolved
  /\ Len(dataTable.headers) = 3
  /\ Rank2024Pattern(dataTable.headers[1]) /\ ~Rank2024Only(dataTable.headers[1])
  /\ Rank2024Only(dataTable.headers[2])
  /\ Rank2024Only(dataTable.headers[3])
  /\ columns.rank2024Index = 1


(***************************************************************************)
(* extractTableData: the row read from a body row                          *)
(***************************************************************************)
Extracted == epc = "done" /\ tableRows # <<>>
\* the positions of the commas of a text, and the n-th of them
Commas(t) == {k \in 1..Len(t) : t[k] = ","}
CommaAt(t, n) ==
  IF n > Cardinality(Commas(t)) THEN Len(t) + 1
  ELSE CHOOSE k \in Commas(t) : Cardinality({l \in Commas(t) : l <= k}) = n
\* the trimmed text between the n-th comma and the next one (or the end)
PartAfter(t, n) == Trim(SubSeq(t, CommaAt(t, n) + 1, CommaAt(t, n + 1) - 1))
\* the parts after the first comma, from the n-th on, rejoined with ", "
RECURSIVE Rejoined(_, _)
Rejoined(t, n) ==
  IF n > Cardinality(Commas(t)) THEN <<>>
  ELSE (IF n > 1 THEN <<",", " ">> ELSE <<>>) \o PartAfter(t, n) \o Rejoined(t, n + 1)
\* a rank field of the row: there iff the column was resolved and the row has
\* the cell, and then the trimmed text of that cell
RankFieldOk(row, key, idx, cells) ==
  IF idx # -1 /\ idx < Len(cells)
    THEN key \in DOMAIN row /\ row[key] = Trim(cells[idx + 1])
    ELSE key \notin DOMAIN row

\* C12: the extracted row has companyName equal to the trimmed text before the
\* first comma of the firm text and location equal to the trimmed parts after
\* the first comma rejoined with ", "; without a comma companyName is the whole
\* text and location is empty.  A rank field is in the row only when its column
\* was resolved and the cell exists, and is omitted otherwise.
C12_RowFields ==
  Extracted =>
    LET cells == dataTable.body[1]
        row == tableRows[1]
        t == Trim(cells[columns.firmIndex + 1])
    IN /\ Len(tableRows) = 1
       /\ {"Company Name", "Location"} \subseteq DOMAIN row
       /\ DOMAIN row \subseteq {"Company Name", "Location", "RANK 2025", "RANK 2024"}
       /\ IF Commas(t) = {}
            THEN row["Company Name"] = t /\ row["Location"] = <<>>
            ELSE /\ row["Company Name"] = Trim(SubSeq(t, 1, CommaAt(t, 1) - 1))
                 /\ row["Location"] = Rejoined(t, 1)
       /\ RankFieldOk(row, "RANK 2025", columns.rank2025Index, cells)
       /\ RankFieldOk(row, "RANK 2024", columns.rank2024Index, cells)

\* a row whose firm text has two commas, with the rank-2025 cell read and the
\* rank-2024 column resolved but its cell missing from the row
C12_Witness ==
  /\ Extracted
  /\ tableRows[1]["Company Name"] = <<"A">>
  /\ tableRows[1]["Location"] = <<"B", ",", " ", "C">>
  /\ "RANK 2025" \in DOMAIN tableRows[1]
  /\ columns.rank2024Index # -1
  /\ "RANK 2024" \notin DOMAIN tableRows[1]


(***************************************************************************)
(* crawlToplistPage, crawlENRToplists: the sleeps between navigations      *)
(***************************************************************************)
\* `delays` holds the sleeps since the latest page.goto was issued
Slept(ms) == \E k \in 1..Len(delays) : delays[k] = ms
\* about to navigate to a pagination page that is not the first of its list
NextPaginationPage == pc = "pag" /\ 1 < j /\ j <= Len(pagLinks)
\* about to navigate to the main page of a list that is not the first
NextList == pc = "main" /\ 1 < i

\* C13: between two consecutive pagination-page navigations of a list the
\* 1.5 s delay elapses, whatever the outcome of the earlier page, and the 2 s
\* delay elapses between the last page of a list and the first navigation of
\* the next list.
C13_DelayBetweenNavigations ==
  /\ NextPaginationPage => Slept(PaginationDelay)
  /\ NextList => Slept(ToplistDelay)

====
